---- MODULE Spec2Model ----
(***************************************************************************)
(* A model of utils.py: the cleaning pipeline of the demographics table    *)
(* (sentinel parsing and replacement, one-hot encoding, decomposition of   *)
(* the two mixed codes, the check of the cleaned table) and the cluster    *)
(* count statistics.                                                       *)
(*                                                                         *)
(* Python values are records [k, n, s]: k is the kind ("int", "float",     *)
(* "half", "str", "na", "nan", "none"), n the number and s the characters  *)
(* of a string.  A "float" holds the integral value n.0 and a "half" the   *)
(* non-integral value n + 0.5; "na" is pd.NA and "nan" is np.nan; strings  *)
(* are sequences of one-character strings, so that int() and split() work  *)
(* on characters.                                                          *)
(*                                                                         *)
(* A table (DataFrame) is a record [cols, n]: the columns in order, each   *)
(* a record [name, dtype, values], and the number of rows.  The dtype is   *)
(* "Int64" for pandas' nullable integer array and "int64" or "object" for  *)
(* a numpy-backed column.                                                  *)
(***************************************************************************)
EXTENDS Integers, Sequences, FiniteSets, TLC

VARIABLES
    fn,                      \* the function of utils.py that is called
    pc,                      \* "call" before it runs, then "return" or "raise"
    missing_or_unknown_str,  \* parse_missing_or_unknown_str: its argument
    converted_list,          \* parse_missing_or_unknown_str: the list returned
    value,                   \* get_*_features: the argument
    features,                \* get_*_features: the pair returned
    cluster_labels_arr,      \* get_cluster_counts_df: the labels
    unique_cluster_ids_sorted,  \* get_cluster_counts_df: the ids to report
    df_counts,               \* get_cluster_counts_df: the rows returned
    feature_summary,         \* the feature summary the tables are cleaned with
    df_at_hand,              \* the table at hand: read, or returned by a call
    df_argument,             \* the table object passed to the last call, now
    df_passed,               \* its content when it was passed
    cutoff_used,             \* the cutoff of the clean_data call that made
                             \* the table at hand, as a set of at most one
    one_hot_args,            \* one_hot_encode_column: column and unique_vals
    cluster_labels_1,        \* get_cluster_counts_comparison_df: labels of
    cluster_labels_2,        \* the first and of the second group
    groups,                  \* get_cluster_counts_comparison_df: group names
    normalization_basis_group,   \* the group the fracs are normalized by
    df_cluster_comparison_long,  \* the long comparison table
    df_long_passed,          \* its content when it was last passed to a call
    df_cluster_comparison_wide,  \* the wide comparison table
    centroids,               \* build_centroids_df: the centroid coordinates
    feature_names,           \* build_centroids_df: the names of the features
    df_centroids             \* build_centroids_df: the rows returned

parseVars == <<missing_or_unknown_str, converted_list>>

featureVars == <<value, features>>

countVars == <<cluster_labels_arr, unique_cluster_ids_sorted, df_counts>>

tableVars ==
    <<feature_summary, df_at_hand, df_argument, df_passed, cutoff_used,
      one_hot_args>>

clusterVars ==
    <<cluster_labels_1, cluster_labels_2, groups, normalization_basis_group,
      df_cluster_comparison_long, df_long_passed, df_cluster_comparison_wide,
      centroids, feature_names, df_centroids>>

vars == <<fn, pc, parseVars, featureVars, countVars, tableVars, clusterVars>>

\* Bounds of the inputs
MaxInterior == 4    \* characters between the brackets of a sentinel spec

MaxValue == 57      \* largest code passed to the get_*_features functions

MaxClusterId == 2   \* cluster ids are 0..MaxClusterId

MaxLabels == 3      \* length of a label array

MaxIds == 3         \* length of the list of ids to report

MaxRows == 2        \* rows of a demographics table

MaxCutoff == 1      \* largest cutoff passed to clean_data

MaxNormId == 1      \* cluster ids of a comparison table are 0..MaxNormId

MaxNormRows == 3    \* rows of a comparison table

MaxGroupLabels == 2 \* length of the label array of a group

MaxCentroids == 2   \* rows of a centroid array

----------------------------------------------------------------------------
(* Python values *)

NA == [k |-> "na", n |-> 0, s |-> <<>>]

NaN == [k |-> "nan", n |-> 0, s |-> <<>>]

None == [k |-> "none", n |-> 0, s |-> <<>>]

IntV(i) == [k |-> "int", n |-> i, s |-> <<>>]

FloatV(i) == [k |-> "float", n |-> i, s |-> <<>>]

HalfV(i) == [k |-> "half", n |-> i, s |-> <<>>]

StrV(chars) == [k |-> "str", n |-> 0, s |-> chars]

\* pd.isna(v) of a scalar
isna(v) == v.k \in {"na", "nan"}

IsNumber(v) == v.k \in {"int", "float", "half"}

\* Python's == on two values: numbers compare by value whatever their type
\* (1 == 1.0), strings by their characters, and a number never equals a string.
PyEq(a, b) ==
    \/ a.k \in {"int", "float"} /\ b.k \in {"int", "float"} /\ a.n = b.n
    \/ a.k = "half" /\ b.k = "half" /\ a.n = b.n
    \/ a.k = "str" /\ b.k = "str" /\ a.s = b.s

\* lo <= v <= hi for a number v and integers lo, hi
InRange(lo, v, hi) ==
    IF v.k = "half" THEN lo <= v.n /\ v.n + 1 <= hi
    ELSE lo <= v.n /\ v.n <= hi

SeqsUpTo(S, n) == UNION {[1..k -> S] : k \in 0..n}

\* The sum of one field over a sequence of records
RECURSIVE SumOf(_, _)
SumOf(rows, field) ==
    IF rows = <<>> THEN 0 ELSE rows[1][field] + SumOf(Tail(rows), field)

----------------------------------------------------------------------------
(* Strings *)

Digits == <<"0", "1", "2", "3", "4", "5", "6", "7", "8", "9">>

IsDigit(c) == \E i \in 1..10 : Digits[i] = c

DigitValue(c) == (CHOOSE i \in 1..10 : Digits[i] = c) - 1

IsSpace(c) == c = " "

\* str.strip(): the characters without the leading and trailing whitespace
Strip(chars) ==
    LET idx == {i \in 1..Len(chars) : ~IsSpace(chars[i])}
    IN  IF idx = {} THEN <<>>
        ELSE LET lo == CHOOSE i \in idx : \A j \in idx : i <= j
                 hi == CHOOSE i \in idx : \A j \in idx : j <= i
             IN  SubSeq(chars, lo, hi)

RECURSIVE DigitsValue(_)
DigitsValue(chars) ==
    IF chars = <<>> THEN 0
    ELSE 10 * DigitsValue(SubSeq(chars, 1, Len(chars) - 1))
         + DigitValue(chars[Len(chars)])

\* The literals int() accepts: after strip(), an optional sign and at least
\* one digit.  (Underscores between digits are outside the alphabet.)
IsIntLiteral(chars) ==
    LET t == Strip(chars)
        body == IF t # <<>> /\ t[1] \in {"-", "+"} THEN Tail(t) ELSE t
    IN  body # <<>> /\ \A i \in 1..Len(body) : IsDigit(body[i])

IntOfLiteral(chars) ==
    LET t == Strip(chars)
    IN  IF t[1] = "-" THEN 0 - DigitsValue(Tail(t))
        ELSE IF t[1] = "+" THEN DigitsValue(Tail(t))
        ELSE DigitsValue(t)

\* str.split(","): the pieces between the commas; the empty string splits
\* into one empty piece.
RECURSIVE split(_)
split(chars) ==
    LET commas == {i \in 1..Len(chars) : chars[i] = ","}
    IN  IF commas = {} THEN <<chars>>
        ELSE LET c == CHOOSE i \in commas : \A j \in commas : i <= j
             IN  <<SubSeq(chars, 1, c - 1)>>
                 \o split(SubSeq(chars, c + 1, Len(chars)))

----------------------------------------------------------------------------
(* parse_missing_or_unknown_str *)

startswith(chars, c) == chars # <<>> /\ chars[1] = c

endswith(chars, c) == chars # <<>> /\ chars[Len(chars)] = c

\* The try/except of the loop body: int(value) when it converts, else the
\* token as it is.
ConvertTokenStripped(token) ==
    IF IsIntLiteral(token) THEN IntV(IntOfLiteral(token)) ELSE StrV(Strip(token))

ConvertToken(token) ==
    IF IsIntLiteral(token) THEN IntV(IntOfLiteral(token)) ELSE StrV(token)

\* split_list = missing_or_unknown_str[1:-1].split(",")
SplitList(chars) == split(SubSeq(chars, 2, Len(chars) - 1))

ParseRaises(chars) == ~startswith(chars, "[") \/ ~endswith(chars, "]")

parse_missing_or_unknown_str(chars) ==
    LET split_list == SplitList(chars)
    IN  [i \in 1..Len(split_list) |-> ConvertToken(split_list[i])]

----------------------------------------------------------------------------
(* get_praegende_jugendjahre_features, get_cameo_intl_2015_features *)

AvantgardeCodes == {2, 4, 6, 7, 9, 11, 13, 15}

IsIntegral(v) == v.k \in {"int", "float"}

Avantgarde(v) == IF IsIntegral(v) /\ v.n \in AvantgardeCodes THEN 0 ELSE 1

DecadeShifted(v) ==
    IF ~IsIntegral(v) THEN None
    ELSE IF v.n \in {1, 2} THEN IntV(0)
    ELSE IF v.n \in {3, 4, 5} THEN IntV(1)
    ELSE IF v.n \in {6, 7} THEN IntV(2)
    ELSE IF v.n \in {8, 9} THEN IntV(3)
    ELSE IF v.n \in {10, 11, 12, 13} THEN IntV(4)
    ELSE IF v.n \in {14, 15} THEN IntV(5)
    ELSE None

Decade(v) ==
    IF ~IsIntegral(v) THEN None
    ELSE IF v.n \in {1, 2} THEN IntV(0)
    ELSE IF v.n \in {3, 4} THEN IntV(1)
    ELSE IF v.n \in {5, 6, 7} THEN IntV(2)
    ELSE IF v.n \in {8, 9} THEN IntV(3)
    ELSE IF v.n \in {10, 11, 12, 13} THEN IntV(4)
    ELSE IF v.n \in {14, 15} THEN IntV(5)
    ELSE None

\* 1 <= value <= 15 raises TypeError for a string, ValueError out of range
PraegendeRaises(v) ==
    ~isna(v) /\ (~IsNumber(v) \/ ~InRange(1, v, 15))

get_praegende_jugendjahre_features(v) ==
    IF isna(v) THEN <<NA, NA>> ELSE <<IntV(Avantgarde(v)), Decade(v)>>

\* Division truncated toward zero, as int() of a quotient truncates
TruncDiv(a, b) == IF a >= 0 THEN a \div b ELSE 0 - ((0 - a) \div b)

\* int(value): a float is truncated toward zero, a string is parsed
IntConvertible(v) == IsNumber(v) \/ (v.k = "str" /\ IsIntLiteral(v.s))

PyInt(v) ==
    IF v.k = "str" THEN IntOfLiteral(v.s)
    ELSE IF v.k = "half" /\ v.n < 0 THEN v.n + 1
    ELSE v.n

WealthCategory(i) == TruncDiv(i, 10)

LifeStageUnits(i) == i % 10

LifeStageCategory(i) == i \div 10

CameoIntlRaises(v) ==
    /\ ~isna(v)
    /\ \/ ~IntConvertible(v)
       \/ ~(11 <= PyInt(v) /\ PyInt(v) <= 55)
       \/ WealthCategory(PyInt(v)) \notin {1, 2, 3, 4, 5}
       \/ LifeStageCategory(PyInt(v)) \notin {1, 2, 3, 4, 5}

get_cameo_intl_2015_features(v) ==
    IF isna(v) THEN <<NA, NA>>
    ELSE <<IntV(WealthCategory(PyInt(v))), IntV(LifeStageCategory(PyInt(v)))>>

----------------------------------------------------------------------------
(* Tables *)

NoTable == [cols |-> <<>>, n |-> 0]

\* The outcome of a call that returns a table or raises
Ok(t) == [raised |-> FALSE, df |-> t]

Raised == [raised |-> TRUE, df |-> NoTable]

\* df.columns
Columns(t) == [i \in 1..Len(t.cols) |-> t.cols[i].name]

Names(t) == {t.cols[i].name : i \in 1..Len(t.cols)}

Rows(t) == 1..t.n

\* df[column]
Series(t, column) ==
    t.cols[CHOOSE i \in 1..Len(t.cols) : t.cols[i].name = column]

Cell(t, column, r) == Series(t, column).values[r]

\* df.isna().sum(axis=1) of row r
NaCount(t, r) ==
    Cardinality({i \in 1..Len(t.cols) : isna(t.cols[i].values[r])})

\* df[name] = series: an existing column is replaced where it stands, a new
\* one is appended
SetColumn(t, name, series) ==
    LET col == [name |-> name, dtype |-> series.dtype, values |-> series.values]
    IN  IF name \in Names(t)
        THEN [t EXCEPT !.cols[CHOOSE i \in 1..Len(t.cols) :
                                  t.cols[i].name = name] = col]
        ELSE [t EXCEPT !.cols = Append(@, col)]

\* df.drop(columns=...) of columns that are all present
Drop(t, dropped) ==
    LET Kept(col) == col.name \notin dropped
    IN  [t EXCEPT !.cols = SelectSeq(@, Kept)]

\* df.drop raises KeyError for a label that is not a column
DropRaises(t, dropped) == dropped \ Names(t) # {}

\* df.iloc[mask]: the rows of `kept`, in their order
TakeRows(t, kept) ==
    LET Rank(r) == Cardinality({q \in kept : q <= r})
        order == [i \in 1..Cardinality(kept) |-> CHOOSE r \in kept : Rank(r) = i]
    IN  [cols |-> [c \in 1..Len(t.cols) |->
                      [t.cols[c] EXCEPT
                          !.values = [i \in 1..Len(order) |-> @[order[i]]]]],
         n |-> Cardinality(kept)]

\* The values a series holds
Values(series) == {series.values[r] : r \in 1..Len(series.values)}

\* series.apply(func), for func given as the mapping of the values held
Apply(series, func, dtype) ==
    [dtype |-> dtype,
     values |-> [r \in 1..Len(series.values) |-> func[series.values[r]]]]

RECURSIVE Join(_)
Join(chars) == IF chars = <<>> THEN "" ELSE chars[1] \o Join(Tail(chars))

\* str(value) inside an f-string
Format(v) ==
    IF v.k = "int" THEN ToString(v.n)
    ELSE IF v.k = "float" THEN ToString(v.n) \o ".0"
    ELSE IF v.k = "half" THEN ToString(v.n) \o ".5"
    ELSE Join(v.s)

----------------------------------------------------------------------------
(* build_column_to_missing_and_unkown_values, set_missing_and_unknown_to_nan *)

\* A feature summary is a sequence of rows [attribute, missing_or_unknown].
Attributes(summary) == {summary[i].attribute : i \in 1..Len(summary)}

BuildRaises(summary) ==
    \/ \E i \in 1..Len(summary) : ParseRaises(summary[i].missing_or_unknown)
    \/ \E i, j \in 1..Len(summary) :
           i < j /\ summary[i].attribute = summary[j].attribute

build_column_to_missing_and_unkown_values(summary) ==
    [column \in Attributes(summary) |->
        LET i == CHOOSE i \in 1..Len(summary) : summary[i].attribute = column
        IN  parse_missing_or_unknown_str(summary[i].missing_or_unknown)]

\* value in missing_and_unknown_values, by Python's ==
IsSentinel(v, missing_and_unknown_values) ==
    \E i \in 1..Len(missing_and_unknown_values) :
        PyEq(v, missing_and_unknown_values[i])

\* series.replace(missing_and_unknown_values, pd.NA)
Replace(series, missing_and_unknown_values) ==
    Apply(series,
          [v \in Values(series) |->
              IF IsSentinel(v, missing_and_unknown_values) THEN NA ELSE v],
          series.dtype)

\* A value astype("Int64") cannot hold: a non-integral float, or a string
\* that is not an integer literal
Int64Raises(v) ==
    \/ v.k = "half"
    \/ v.k = "str" /\ ~IsIntLiteral(v.s)

ToInt64(v) ==
    IF isna(v) THEN NA
    ELSE IF v.k = "str" THEN IntV(IntOfLiteral(v.s))
    ELSE IntV(v.n)

AsTypeInt64Kept(series) == series

AsTypeInt64(series) ==
    Apply(series, [v \in Values(series) |-> ToInt64(v)], "Int64")

\* for column, missing_and_unknown_values in ...items():
\*     df[column] = df[column].replace(missing_and_unknown_values, pd.NA)
ReplaceAll(t, sentinels) ==
    [cols |-> [c \in 1..Len(t.cols) |->
                  [t.cols[c] EXCEPT
                      !.values = Replace(t.cols[c], sentinels[t.cols[c].name]).values]],
     n |-> t.n]

set_missing_and_unknown_to_nan(input_df, sentinels) ==
    IF Names(input_df) \ DOMAIN sentinels # {} THEN Raised
    ELSE IF DOMAIN sentinels \ Names(input_df) # {} THEN Raised
    ELSE LET df == ReplaceAll(input_df, sentinels)
             deug == Series(df, "CAMEO_DEUG_2015")
         IN  IF "CAMEO_DEUG_2015" \notin Names(df) THEN Raised
             ELSE IF \E r \in Rows(df) : Int64Raises(deug.values[r]) THEN Raised
             ELSE Ok(SetColumn(df, "CAMEO_DEUG_2015", AsTypeInt64(deug)))

----------------------------------------------------------------------------
(* one_hot_encode_column *)

\* (df[column] == unique_val).astype("int64") of one cell of a numpy-backed
\* column: a missing cell compares unequal
Dummy(v, unique_val) == IF PyEq(v, unique_val) THEN IntV(1) ELSE IntV(0)

\* The comparison of a nullable column is a masked boolean array, and
\* astype("int64") raises for one that holds a missing value
DummiesRaise(series, unique_vals) ==
    /\ unique_vals # <<>>
    /\ series.dtype = "Int64"
    /\ \E r \in 1..Len(series.values) : isna(series.values[r])

RECURSIVE AddDummies(_, _, _, _)
AddDummies(df, column, unique_vals, i) ==
    IF i > Len(unique_vals) THEN df
    ELSE LET unique_val == unique_vals[i]
             new_column == column \o "_" \o Format(unique_val)
             series == Series(df, column)
         IN  AddDummies(SetColumn(df, new_column,
                                  Apply(series,
                                        [v \in Values(series) |->
                                            Dummy(v, unique_val)],
                                        "int64")),
                        column, unique_vals, i + 1)

UnexpectedVals(series, unique_vals) ==
    {r \in 1..Len(series.values) :
        /\ ~isna(series.values[r])
        /\ ~\E i \in 1..Len(unique_vals) : PyEq(series.values[r], unique_vals[i])}

one_hot_encode_column(df_input, column, unique_vals) ==
    IF column \notin Names(df_input) THEN Raised
    ELSE IF UnexpectedVals(Series(df_input, column), unique_vals) # {} THEN Raised
    ELSE IF DummiesRaise(Series(df_input, column), unique_vals) THEN Raised
    ELSE Ok(Drop(AddDummies(df_input, column, unique_vals, 1), {column}))

\* for column, unique_vals in columns_for_one_hot_encoding.items()
RECURSIVE OneHotAll(_, _, _)
OneHotAll(out, encodings, i) ==
    IF out.raised \/ i > Len(encodings) THEN out
    ELSE OneHotAll(one_hot_encode_column(out.df, encodings[i].column,
                                         encodings[i].unique_vals),
                   encodings, i + 1)

----------------------------------------------------------------------------
(* modify_categorical_columns *)

IntVs(lo, hi) == [i \in 1..(hi - lo + 1) |-> IntV(lo + i - 1)]

FloatVs(lo, hi) == [i \in 1..(hi - lo + 1) |-> FloatV(lo + i - 1)]

Encoding(column, unique_vals) == [column |-> column, unique_vals |-> unique_vals]

CategoricalEncodings ==
    << Encoding("CAMEO_DEUG_2015", IntVs(1, 9)),
       Encoding("CJT_GESAMTTYP", FloatVs(1, 6)),
       Encoding("FINANZTYP", IntVs(1, 6)),
       Encoding("GEBAEUDETYP", <<FloatV(1), FloatV(3), FloatV(5), FloatV(8)>>),
       Encoding("GFK_URLAUBERTYP", FloatVs(1, 12)),
       Encoding("LP_FAMILIE_FEIN", FloatVs(1, 11)),
       Encoding("LP_FAMILIE_GROB", FloatVs(1, 5)),
       Encoding("LP_STATUS_FEIN", FloatVs(1, 10)),
       Encoding("LP_STATUS_GROB", FloatVs(1, 5)),
       Encoding("NATIONALITAET_KZ", IntVs(1, 3)),
       Encoding("SHOPPER_TYP", IntVs(0, 3)),
       Encoding("ZABEOTYP", IntVs(1, 6)) >>

\* lambda val: 0 if val == "W" else 1.  pd.NA == "W" is pd.NA, whose truth
\* value raises; np.nan == "W" is False.
OstWestRaises(v) == v.k = "na"

OstWest(v) == IF PyEq(v, StrV(<<"W">>)) THEN IntV(0) ELSE IntV(1)

modify_categorical_columns(df) ==
    IF DropRaises(df, {"CAMEO_DEU_2015"}) THEN Raised
    ELSE LET df1 == Drop(df, {"CAMEO_DEU_2015"})
             ost == Series(df1, "OST_WEST_KZ")
         IN  IF "OST_WEST_KZ" \notin Names(df1) THEN Raised
             ELSE IF \E r \in Rows(df1) : OstWestRaises(ost.values[r]) THEN Raised
             ELSE OneHotAll(Ok(SetColumn(df1, "OST_WEST_KZ",
                                         Apply(ost,
                                               [v \in Values(ost) |-> OstWest(v)],
                                               "int64"))),
                            CategoricalEncodings, 1)

----------------------------------------------------------------------------
(* modify_mixed_type_columns *)

MixedEncodings ==
    << Encoding("decade", IntVs(0, 5)),
       Encoding("wealth_category", IntVs(1, 5)),
       Encoding("life_stage_category", IntVs(1, 5)) >>

MixedColumnsToDropNone == {}

MixedColumnsToDrop ==
    {"LP_LEBENSPHASE_FEIN", "LP_LEBENSPHASE_GROB", "WOHNLAGE", "PLZ8_BAUMAX"}

\* The first two assignments are made on the table passed in
PraegendeApplies(df) ==
    /\ "PRAEGENDE_JUGENDJAHRE" \in Names(df)
    /\ \A r \in Rows(df) :
           ~PraegendeRaises(Cell(df, "PRAEGENDE_JUGENDJAHRE", r))

WithAvantgardeAndDecade(df) ==
    LET praegende == Series(df, "PRAEGENDE_JUGENDJAHRE")
        func == [v \in Values(praegende) |-> get_praegende_jugendjahre_features(v)]
    IN  SetColumn(SetColumn(df, "avantgarde",
                            Apply(praegende,
                                  [v \in Values(praegende) |-> func[v][1]],
                                  "object")),
                  "decade",
                  Apply(praegende, [v \in Values(praegende) |-> func[v][2]],
                        "object"))

\* The table passed to modify_mixed_type_columns, after the call
MixedArgument(df) ==
    IF PraegendeApplies(df) THEN WithAvantgardeAndDecade(df) ELSE df

modify_mixed_type_columns(df) ==
    IF ~PraegendeApplies(df) THEN Raised
    ELSE LET df1 == Drop(WithAvantgardeAndDecade(df), {"PRAEGENDE_JUGENDJAHRE"})
             cameo == Series(df1, "CAMEO_INTL_2015")
             func == [v \in Values(cameo) |-> get_cameo_intl_2015_features(v)]
             df2 == SetColumn(SetColumn(df1, "wealth_category",
                                        Apply(cameo,
                                              [v \in Values(cameo) |-> func[v][1]],
                                              "object")),
                              "life_stage_category",
                              Apply(cameo, [v \in Values(cameo) |-> func[v][2]],
                                    "object"))
             out == OneHotAll(Ok(Drop(df2, {"CAMEO_INTL_2015"})), MixedEncodings, 1)
         IN  IF "CAMEO_INTL_2015" \notin Names(df1) THEN Raised
             ELSE IF \E r \in Rows(df1) : CameoIntlRaises(cameo.values[r]) THEN Raised
             ELSE IF out.raised THEN Raised
             ELSE IF DropRaises(out.df, MixedColumnsToDrop) THEN Raised
             ELSE Ok(Drop(out.df, MixedColumnsToDrop))

----------------------------------------------------------------------------
(* clean_data *)

OutlierColumns ==
    {"TITEL_KZ", "AGER_TYP", "KK_KUNDENTYP", "KBA05_BAUMAX", "GEBURTSJAHR",
     "ALTER_HH"}

KeptRowsBelowCutoff(df, cutoff) == {r \in Rows(df) : NaCount(df, r) < cutoff}

\* df.iloc[nan_count_by_row <= cutoff]
KeptRows(df, cutoff) == {r \in Rows(df) : NaCount(df, r) <= cutoff}

clean_data(df_demographics, df_feature_summary, cutoff) ==
    IF BuildRaises(df_feature_summary) THEN Raised
    ELSE LET sentinels ==
                 build_column_to_missing_and_unkown_values(df_feature_summary)
             replaced == set_missing_and_unknown_to_nan(df_demographics, sentinels)
             df1 == Drop(replaced.df, OutlierColumns)
             df2 == TakeRows(df1, KeptRows(df1, cutoff))
             categorical == modify_categorical_columns(df2)
         IN  IF replaced.raised THEN Raised
             ELSE IF DropRaises(replaced.df, OutlierColumns) THEN Raised
             ELSE IF categorical.raised THEN Raised
             ELSE modify_mixed_type_columns(categorical.df)

----------------------------------------------------------------------------
(* check_cleaned_df *)

num_columns_in_original_dataset == 85

Replacement(column, num) == [column |-> column, num |-> num]

column_dropped_to_num_replacements ==
    << Replacement("TITEL_KZ", 0), Replacement("AGER_TYP", 0),
       Replacement("KK_KUNDENTYP", 0), Replacement("KBA05_BAUMAX", 0),
       Replacement("GEBURTSJAHR", 0), Replacement("ALTER_HH", 0),
       Replacement("CAMEO_DEU_2015", 0), Replacement("GFK_URLAUBERTYP", 12),
       Replacement("LP_FAMILIE_FEIN", 11), Replacement("LP_STATUS_FEIN", 10),
       Replacement("CAMEO_DEUG_2015", 9), Replacement("GEBAEUDETYP", 4),
       Replacement("CJT_GESAMTTYP", 6), Replacement("FINANZTYP", 6),
       Replacement("ZABEOTYP", 6), Replacement("LP_FAMILIE_GROB", 5),
       Replacement("LP_STATUS_GROB", 5), Replacement("SHOPPER_TYP", 4),
       Replacement("NATIONALITAET_KZ", 3),
       Replacement("PRAEGENDE_JUGENDJAHRE", 7),
       Replacement("CAMEO_INTL_2015", 10),
       Replacement("LP_LEBENSPHASE_FEIN", 0),
       Replacement("LP_LEBENSPHASE_GROB", 0), Replacement("WOHNLAGE", 0),
       Replacement("PLZ8_BAUMAX", 0) >>

expected_columns ==
    num_columns_in_original_dataset - Len(column_dropped_to_num_replacements)
        + SumOf(column_dropped_to_num_replacements, "num")

expected_dropped_columns ==
    {column_dropped_to_num_replacements[i].column :
        i \in 1..Len(column_dropped_to_num_replacements)}

\* The cutoff check_cleaned_df sets for itself
check_cutoff == 0

\* type(unique_val) not in (int, float)
NotNumericAnyType(v) == FALSE

NotNumeric(v) == v.k \notin {"int", "float", "half"}

CheckRaises(df) ==
    \/ Len(df.cols) # expected_columns
    \/ expected_dropped_columns \cap Names(df) # {}
    \/ \E r \in Rows(df) : NaCount(df, r) > check_cutoff
    \/ \E c \in 1..Len(df.cols) : \E r \in Rows(df) :
           ~isna(df.cols[c].values[r]) /\ NotNumeric(df.cols[c].values[r])

----------------------------------------------------------------------------
(* Numbers of the count statistics                                         *)
(*                                                                         *)
(* A fraction count / total is the exact rational [num, den] in lowest     *)
(* terms; a square root is kept by its radicand.  What the rounding of the *)
(* floating-point operations decides (the comparison of a rounded sum with *)
(* 1.0) is left open wherever an operand is not exactly representable.     *)

RECURSIVE GCD(_, _)
GCD(a, b) == IF b = 0 THEN a ELSE GCD(b, a % b)

\* n / d for n >= 0 and d > 0
Rat(n, d) == LET g == GCD(n, d) IN [num |-> n \div g, den |-> d \div g]

\* np.sqrt(n) / d
SqrtOver(n, d) == [radicand |-> n, den |-> d]

IsPowerOfTwo(d) == \E e \in 0..30 : 2 ^ e = d

\* A fraction that a binary floating-point number holds exactly
ExactFloat(q) == IsPowerOfTwo(q.den)

----------------------------------------------------------------------------
(* get_cluster_counts_df *)

\* collections.Counter(cluster_labels_arr)[cluster_id]
Counter(labels, cluster_id) ==
    Cardinality({i \in 1..Len(labels) : labels[i] = cluster_id})

\* The ids the loop runs over
RowIdsFromCounter(labels, ids) ==
    LET present == {labels[i] : i \in 1..Len(labels)}
        idx == {i \in 1..Len(ids) : ids[i] \in present}
        Rank(i) == Cardinality({j \in idx : j <= i})
    IN  [r \in 1..Cardinality(idx) |-> ids[CHOOSE i \in idx : Rank(i) = r]]

RowIds(labels, ids) == ids

CountRow(labels, cluster_id) ==
    LET count == Counter(labels, cluster_id)
        total_count == Len(labels)
    IN  [cluster_id |-> cluster_id,
         count |-> count,
         count_error |-> SqrtOver(count, 1),
         frac |-> Rat(count, total_count),
         frac_error |-> SqrtOver(count, total_count)]

CountsColumns ==
    <<"cluster_id", "count", "count_error", "frac", "frac_error">>

CountRows(labels, ids) ==
    LET row_ids == RowIds(labels, ids)
    IN  [i \in 1..Len(row_ids) |-> CountRow(labels, row_ids[i])]

\* The failures that do not depend on rounding: a division by a total of
\* zero, a count column that does not sum to the number of labels, and a
\* frac column that is empty (it sums to 0.0).
CountsRaiseOnlyWhenEmpty(labels, ids) == Len(labels) = 0

CountsMustRaise(labels, ids) ==
    IF Len(labels) = 0 THEN TRUE
    ELSE SumOf(CountRows(labels, ids), "count") # Len(labels)

\* The rounded sum of the frac column may differ from 1.0 when some frac is
\* not exactly representable.
CountsMayRaise(labels, ids) ==
    /\ ~CountsMustRaise(labels, ids)
    /\ \E i \in 1..Len(CountRows(labels, ids)) :
           ~ExactFloat(CountRows(labels, ids)[i].frac)

----------------------------------------------------------------------------
(* normalize_cluster_comparison_df                                         *)
(*                                                                         *)
(* A comparison table is a record [columns, rows]: the column names in     *)
(* order and the rows, each a record of its cells.                         *)

\* x / y for y > 0
RatDiv(x, y) == Rat(x.num * y.den, x.den * y.num)

RatMul(x, y) == Rat(x.num * y.num, x.den * y.den)

RatAdd(x, y) == Rat(x.num * y.den + y.num * x.den, x.den * y.den)

\* The square of np.sqrt(n) / d
Squared(e) == Rat(e.radicand, e.den * e.den)

\* np.sqrt(q), kept by its square
SqrtOf(q) == [squared |-> q]

\* df[df["group"] == normalization_basis_group]
GroupRows(df, group) ==
    LET InGroup(row) == row.group = group
    IN  SelectSeq(df.rows, InGroup)

\* The first loop raises for a frac of zero and for a repeated cluster id
HelperRaises(basis_rows) ==
    \E i \in 1..Len(basis_rows) :
        \/ basis_rows[i].frac.num = 0
        \/ \E j \in 1..(i - 1) : basis_rows[j].cluster_id = basis_rows[i].cluster_id

\* cluster_id_to_frac_for_normalization and
\* cluster_id_to_frac_error_for_normalization, as one dictionary
HelperDictionary(basis_rows) ==
    [cluster_id \in {basis_rows[i].cluster_id : i \in 1..Len(basis_rows)} |->
        LET row == basis_rows[CHOOSE i \in 1..Len(basis_rows) :
                                 basis_rows[i].cluster_id = cluster_id]
        IN  [frac |-> row.frac, frac_error |-> row.frac_error]]

\* The second loop raises for a cluster id that is not in the dictionary
LookupRaises(df, helper) ==
    \E i \in 1..Len(df.rows) : df.rows[i].cluster_id \notin DOMAIN helper

NormalizedFracAsReference(x, y) == y

\* q = x / y
NormalizedFrac(x, y) == RatDiv(x, y)

\* dq = np.sqrt((dx/y)**2 + (x*dy/y**2)**2)
NormalizedFracError(x, dx, y, dy) ==
    SqrtOf(RatAdd(RatDiv(Squared(dx), RatMul(y, y)),
                  RatDiv(RatMul(RatMul(x, x), Squared(dy)),
                         RatMul(RatMul(y, y), RatMul(y, y)))))

NormalizedRow(row, helper) ==
    LET fields == DOMAIN row \cup {"normalized_frac", "normalized_frac_error"}
        y == helper[row.cluster_id].frac
        dy == helper[row.cluster_id].frac_error
    IN  [f \in fields |->
            IF f = "normalized_frac" THEN NormalizedFrac(row.frac, y)
            ELSE IF f = "normalized_frac_error"
                 THEN NormalizedFracError(row.frac, row.frac_error, y, dy)
            ELSE row[f]]

\* df[name] = ...: the name of a new column is appended
WithColumn(columns, name) ==
    IF \E i \in 1..Len(columns) : columns[i] = name THEN columns
    ELSE Append(columns, name)

TableAfterRaiseWithColumn(df) ==
    [df EXCEPT !.columns = Append(@, "normalized_frac")]

\* The columns are assigned after both loops: a call that raises leaves the
\* table as it was
TableAfterRaise(df) == df

NormalizeRaises(df, basis_group) ==
    \/ HelperRaises(GroupRows(df, basis_group))
    \/ LookupRaises(df, HelperDictionary(GroupRows(df, basis_group)))

\* The table df is after a call that returns
normalize_cluster_comparison_df(df, basis_group) ==
    LET helper == HelperDictionary(GroupRows(df, basis_group))
    IN  [columns |-> WithColumn(WithColumn(df.columns, "normalized_frac"),
                                "normalized_frac_error"),
         rows |-> [i \in 1..Len(df.rows) |-> NormalizedRow(df.rows[i], helper)]]

----------------------------------------------------------------------------
(* get_cluster_counts_comparison_df *)

\* list(set(cluster_labels_1) | set(cluster_labels_2)), sorted
UniqueClusterIdsSorted(labels_1, labels_2) ==
    LET ids == {labels_1[i] : i \in 1..Len(labels_1)}
                   \cup {labels_2[i] : i \in 1..Len(labels_2)}
        Rank(id) == Cardinality({other \in ids : other <= id})
    IN  [r \in 1..Cardinality(ids) |-> CHOOSE id \in ids : Rank(id) = r]

\* df_cluster_counts["group"] = group
WithGroup(rows, group) ==
    [i \in 1..Len(rows) |->
        [f \in DOMAIN rows[i] \cup {"group"} |->
            IF f = "group" THEN group ELSE rows[i][f]]]

ConcatCountsOfFirstGroup(labels_1, labels_2, group_names) ==
    [columns |-> Append(CountsColumns, "group"),
     rows |-> WithGroup(CountRows(labels_1,
                                  UniqueClusterIdsSorted(labels_1, labels_2)),
                        group_names[1])]

\* pd.concat([df_cluster_counts_1, df_cluster_counts_2]).reset_index(drop=True)
ConcatCounts(labels_1, labels_2, group_names) ==
    LET ids == UniqueClusterIdsSorted(labels_1, labels_2)
    IN  [columns |-> Append(CountsColumns, "group"),
         rows |-> WithGroup(CountRows(labels_1, ids), group_names[1])
                      \o WithGroup(CountRows(labels_2, ids), group_names[2])]

GroupsRaise(group_names, basis_group) ==
    \/ Len(group_names) # 2
    \/ \A i \in 1..Len(group_names) : group_names[i] # basis_group

\* The failures that do not depend on rounding
ComparisonMustRaise(labels_1, labels_2, group_names, basis_group) ==
    IF GroupsRaise(group_names, basis_group) THEN TRUE
    ELSE LET ids == UniqueClusterIdsSorted(labels_1, labels_2)
         IN  IF CountsMustRaise(labels_1, ids) \/ CountsMustRaise(labels_2, ids)
             THEN TRUE
             ELSE NormalizeRaises(ConcatCounts(labels_1, labels_2, group_names),
                                  basis_group)

\* The frac check of either get_cluster_counts_df call may fail by rounding
ComparisonMayRaise(labels_1, labels_2, group_names, basis_group) ==
    IF GroupsRaise(group_names, basis_group) THEN FALSE
    ELSE LET ids == UniqueClusterIdsSorted(labels_1, labels_2)
         IN  CountsMayRaise(labels_1, ids) \/ CountsMayRaise(labels_2, ids)

ComparisonLong(labels_1, labels_2, group_names, basis_group) ==
    normalize_cluster_comparison_df(ConcatCounts(labels_1, labels_2, group_names),
                                    basis_group)

ValuesList ==
    <<"count", "count_error", "frac", "frac_error", "normalized_frac",
      "normalized_frac_error">>

\* df.pivot(index=["cluster_id"], columns=["group"], values=values_list): for
\* each cluster id, in ascending order, and each group the values of its row
ComparisonWide(long, ids) ==
    [r \in 1..Len(ids) |->
        [cluster_id |-> ids[r],
         cells |-> [g \in {long.rows[i].group : i \in 1..Len(long.rows)} |->
                      LET row == long.rows[CHOOSE i \in 1..Len(long.rows) :
                                              /\ long.rows[i].group = g
                                              /\ long.rows[i].cluster_id = ids[r]]
                      IN  [v \in {ValuesList[j] : j \in 1..Len(ValuesList)} |->
                              row[v]]]]]

----------------------------------------------------------------------------
(* build_centroids_df *)

\* df_cluster_comparison_long[idx][column] for idx the rows of a group
GroupColumn(long, group, column) ==
    LET rows == GroupRows(long, group)
    IN  [i \in 1..Len(rows) |-> rows[i][column]]

\* np.insert(data, at, values, axis=1) takes a column of one value for every
\* row, or of as many values as there are rows
InsertRaisesUnlessSameLength(num_rows, column_values) ==
    Len(column_values) # num_rows

InsertRaises(num_rows, column_values) ==
    Len(column_values) \notin {1, num_rows}

\* The value np.insert puts in row i
Inserted(column_values, i) ==
    IF Len(column_values) = 1 THEN column_values[1] ELSE column_values[i]

BuildCentroidsRaises(centroid_rows, names, long) ==
    \/ InsertRaises(Len(centroid_rows),
                    GroupColumn(long, "customer", "normalized_frac"))
    \/ InsertRaises(Len(centroid_rows), GroupColumn(long, "demographics", "frac"))
    \/ \E i \in 1..Len(centroid_rows) : Len(centroid_rows[i]) # Len(names)

\* The rows before they are sorted
CentroidRows(centroid_rows, long) ==
    [i \in 1..Len(centroid_rows) |->
        [cluster_id |-> i - 1,
         normalized_customer_frac |->
             Inserted(GroupColumn(long, "customer", "normalized_frac"), i),
         demographics_frac |->
             Inserted(GroupColumn(long, "demographics", "frac"), i),
         features |-> centroid_rows[i]]]

RatLeq(x, y) == x.num * y.den <= y.num * x.den

\* df.sort_values(by="normalized_customer_frac"): the orders of the rows that
\* are ascending; the sort is not stable, rows of equal value come in any
\* order
SortOrdersKeepingInput(rows) == {[i \in 1..Len(rows) |-> i]}

SortOrders(rows) ==
    {order \in Permutations(1..Len(rows)) :
        \A i, j \in 1..Len(rows) :
            i < j => RatLeq(rows[order[i]].normalized_customer_frac,
                            rows[order[j]].normalized_customer_frac)}

----------------------------------------------------------------------------
(* The values a variable holds while its function is not the one called *)

ParseIdle == missing_or_unknown_str = <<>> /\ converted_list = <<>>

FeaturesIdle == value = NA /\ features = <<NA, NA>>

CountsIdle ==
    /\ cluster_labels_arr = <<>>
    /\ unique_cluster_ids_sorted = <<>>
    /\ df_counts = <<>>

\* No clean_data call made the table at hand
NoCutoff == {}

\* one_hot_encode_column was not the last call
NoEncoding == [column |-> "", unique_vals |-> <<>>]

TablesIdle ==
    /\ feature_summary = <<>>
    /\ df_at_hand = NoTable
    /\ df_argument = NoTable
    /\ df_passed = NoTable
    /\ cutoff_used = NoCutoff
    /\ one_hot_args = NoEncoding

\* A comparison table without columns and rows
NoLongTable == [columns |-> <<>>, rows |-> <<>>]

ClustersIdle ==
    /\ cluster_labels_1 = <<>>
    /\ cluster_labels_2 = <<>>
    /\ groups = <<>>
    /\ normalization_basis_group = ""
    /\ df_cluster_comparison_long = NoLongTable
    /\ df_long_passed = NoLongTable
    /\ df_cluster_comparison_wide = <<>>
    /\ centroids = <<>>
    /\ feature_names = <<>>
    /\ df_centroids = <<>>

----------------------------------------------------------------------------
(* SpecParse: one call of parse_missing_or_unknown_str *)

InteriorAlphabet == {",", "-", "1", "9", "X", " "}

\* The argument: an interior between an opening and a closing character, each
\* of which may be the bracket, another character, or absent.
SpecStrings ==
    {open \o interior \o close :
        open \in {<<>>, <<"[">>, <<"X">>},
        interior \in SeqsUpTo(InteriorAlphabet, MaxInterior),
        close \in {<<>>, <<"]">>, <<"X">>}}

InitParse ==
    /\ fn = "parse_missing_or_unknown_str"
    /\ pc = "call"
    /\ missing_or_unknown_str \in SpecStrings
    /\ converted_list = <<>>
    /\ FeaturesIdle
    /\ CountsIdle
    /\ TablesIdle
    /\ ClustersIdle

ParseMissingOrUnknownStr ==
    /\ fn = "parse_missing_or_unknown_str"
    /\ pc = "call"
    /\ IF ParseRaises(missing_or_unknown_str)
       THEN pc' = "raise" /\ UNCHANGED converted_list
       ELSE /\ pc' = "return"
            /\ converted_list' = parse_missing_or_unknown_str(missing_or_unknown_str)
    /\ UNCHANGED <<fn, missing_or_unknown_str, featureVars, countVars, tableVars,
                   clusterVars>>

NextParse == ParseMissingOrUnknownStr

SpecParse == InitParse /\ [][NextParse]_vars

----------------------------------------------------------------------------
(* SpecFeatures: one call of one of the two get_*_features functions *)

CodeStrings == SeqsUpTo({"1", "5", "6", "X"}, 2)

FeatureValues ==
    {NA} \cup {IntV(i) : i \in -1..MaxValue}
         \cup {FloatV(i) : i \in -1..MaxValue}
         \cup {HalfV(i) : i \in -1..MaxValue}
         \cup {StrV(s) : s \in CodeStrings}

InitFeatures ==
    /\ fn \in {"get_praegende_jugendjahre_features", "get_cameo_intl_2015_features"}
    /\ pc = "call"
    /\ value \in FeatureValues
    /\ features = <<NA, NA>>
    /\ ParseIdle
    /\ CountsIdle
    /\ TablesIdle
    /\ ClustersIdle

GetPraegendeJugendjahreFeatures ==
    /\ fn = "get_praegende_jugendjahre_features"
    /\ pc = "call"
    /\ IF PraegendeRaises(value)
       THEN pc' = "raise" /\ UNCHANGED features
       ELSE /\ pc' = "return"
            /\ features' = get_praegende_jugendjahre_features(value)
    /\ UNCHANGED <<fn, value, parseVars, countVars, tableVars, clusterVars>>

GetCameoIntl2015Features ==
    /\ fn = "get_cameo_intl_2015_features"
    /\ pc = "call"
    /\ IF CameoIntlRaises(value)
       THEN pc' = "raise" /\ UNCHANGED features
       ELSE /\ pc' = "return"
            /\ features' = get_cameo_intl_2015_features(value)
    /\ UNCHANGED <<fn, value, parseVars, countVars, tableVars, clusterVars>>

NextFeatures == GetPraegendeJugendjahreFeatures \/ GetCameoIntl2015Features

SpecFeatures == InitFeatures /\ [][NextFeatures]_vars

----------------------------------------------------------------------------
(* SpecCounts: one call of get_cluster_counts_df *)

ExampleLabels == <<0, 0, 1, 2, 2, 2>>

ExampleIds == <<0, 1, 2, 3>>

InitCounts ==
    /\ fn = "get_cluster_counts_df"
    /\ pc = "call"
    /\ cluster_labels_arr \in
           SeqsUpTo(0..MaxClusterId, MaxLabels) \cup {ExampleLabels}
    /\ unique_cluster_ids_sorted \in
           SeqsUpTo(0..MaxClusterId, MaxIds) \cup {ExampleIds}
    /\ df_counts = <<>>
    /\ ParseIdle
    /\ FeaturesIdle
    /\ TablesIdle
    /\ ClustersIdle

GetClusterCountsDfRaise ==
    /\ fn = "get_cluster_counts_df"
    /\ pc = "call"
    /\ \/ CountsMustRaise(cluster_labels_arr, unique_cluster_ids_sorted)
       \/ CountsMayRaise(cluster_labels_arr, unique_cluster_ids_sorted)
    /\ pc' = "raise"
    /\ UNCHANGED <<fn, parseVars, featureVars, countVars, tableVars,
                   clusterVars>>

GetClusterCountsDfReturn ==
    /\ fn = "get_cluster_counts_df"
    /\ pc = "call"
    /\ ~CountsMustRaise(cluster_labels_arr, unique_cluster_ids_sorted)
    /\ pc' = "return"
    /\ df_counts' = CountRows(cluster_labels_arr, unique_cluster_ids_sorted)
    /\ UNCHANGED <<fn, parseVars, featureVars, tableVars, clusterVars,
                   cluster_labels_arr, unique_cluster_ids_sorted>>

NextCounts == GetClusterCountsDfRaise \/ GetClusterCountsDfReturn

SpecCounts == InitCounts /\ [][NextCounts]_vars

----------------------------------------------------------------------------
(* SpecNormalize: one call of normalize_cluster_comparison_df on a table   *)
(* of rows of two groups                                                   *)

NormGroups == {"demographics", "customer"}

\* The rows are those of groups of four labels, with the fracs 0, 0.25, 0.5
NormTotal == 4

NormCounts == {0, 1, 2}

\* A row as get_cluster_counts_df makes it, with its group
NormRow(cluster_id, count, group) ==
    [cluster_id |-> cluster_id,
     count |-> count,
     count_error |-> SqrtOver(count, 1),
     frac |-> Rat(count, NormTotal),
     frac_error |-> SqrtOver(count, NormTotal),
     group |-> group]

NormRows ==
    {NormRow(c, n, g) : c \in 0..MaxNormId, n \in NormCounts, g \in NormGroups}

InitNormalize ==
    /\ fn = "normalize_cluster_comparison_df"
    /\ pc = "call"
    /\ df_cluster_comparison_long \in
           {[columns |-> Append(CountsColumns, "group"), rows |-> rows] :
               rows \in SeqsUpTo(NormRows, MaxNormRows)}
    /\ normalization_basis_group \in NormGroups
    /\ df_long_passed = NoLongTable
    /\ cluster_labels_1 = <<>>
    /\ cluster_labels_2 = <<>>
    /\ groups = <<>>
    /\ df_cluster_comparison_wide = <<>>
    /\ centroids = <<>>
    /\ feature_names = <<>>
    /\ df_centroids = <<>>
    /\ ParseIdle
    /\ FeaturesIdle
    /\ CountsIdle
    /\ TablesIdle

NormalizeClusterComparisonDf ==
    /\ fn = "normalize_cluster_comparison_df"
    /\ pc = "call"
    /\ df_long_passed' = df_cluster_comparison_long
    /\ IF NormalizeRaises(df_cluster_comparison_long, normalization_basis_group)
       THEN /\ pc' = "raise"
            /\ df_cluster_comparison_long' =
                   TableAfterRaise(df_cluster_comparison_long)
       ELSE /\ pc' = "return"
            /\ df_cluster_comparison_long' =
                   normalize_cluster_comparison_df(df_cluster_comparison_long,
                                                   normalization_basis_group)
    /\ UNCHANGED <<fn, parseVars, featureVars, countVars, tableVars,
                   cluster_labels_1, cluster_labels_2, groups,
                   normalization_basis_group, df_cluster_comparison_wide,
                   centroids, feature_names, df_centroids>>

NextNormalize == NormalizeClusterComparisonDf

SpecNormalize == InitNormalize /\ [][NextNormalize]_vars

----------------------------------------------------------------------------
(* SpecClusters: one call of get_cluster_counts_comparison_df, and then a  *)
(* call of build_centroids_df with the long table it returned              *)

GroupChoices ==
    { <<"demographics", "customer">>, <<"customer", "demographics">>,
      <<"demographics", "general">>, <<"general", "customer">>,
      <<"customer", "customer">>, <<"demographics">> }

BasisChoices == {"demographics", "customer"}

\* Arrays of up to MaxCentroids centroids with one feature, the coordinate
\* of each centroid its own
CentroidArrays ==
    {[i \in 1..k |-> <<IntV(i)>>] : k \in 1..MaxCentroids}

FeatureNameChoices == {<<"feature">>, <<>>}

InitClusters ==
    /\ fn = "get_cluster_counts_comparison_df"
    /\ pc = "call"
    /\ cluster_labels_1 \in SeqsUpTo(0..MaxClusterId, MaxGroupLabels)
    /\ cluster_labels_2 \in SeqsUpTo(0..MaxClusterId, MaxGroupLabels)
    /\ groups \in GroupChoices
    /\ normalization_basis_group \in BasisChoices
    /\ df_cluster_comparison_long = NoLongTable
    /\ df_long_passed = NoLongTable
    /\ df_cluster_comparison_wide = <<>>
    /\ centroids = <<>>
    /\ feature_names = <<>>
    /\ df_centroids = <<>>
    /\ ParseIdle
    /\ FeaturesIdle
    /\ CountsIdle
    /\ TablesIdle

GetClusterCountsComparisonDfRaise ==
    /\ fn = "get_cluster_counts_comparison_df"
    /\ pc = "call"
    /\ \/ ComparisonMustRaise(cluster_labels_1, cluster_labels_2, groups,
                              normalization_basis_group)
       \/ ComparisonMayRaise(cluster_labels_1, cluster_labels_2, groups,
                             normalization_basis_group)
    /\ pc' = "raise"
    /\ UNCHANGED <<fn, parseVars, featureVars, countVars, tableVars,
                   clusterVars>>

GetClusterCountsComparisonDfReturn ==
    /\ fn = "get_cluster_counts_comparison_df"
    /\ pc = "call"
    /\ ~ComparisonMustRaise(cluster_labels_1, cluster_labels_2, groups,
                            normalization_basis_group)
    /\ pc' = "return"
    /\ df_cluster_comparison_long' =
           ComparisonLong(cluster_labels_1, cluster_labels_2, groups,
                          normalization_basis_group)
    /\ df_cluster_comparison_wide' =
           ComparisonWide(df_cluster_comparison_long',
                          UniqueClusterIdsSorted(cluster_labels_1,
                                                 cluster_labels_2))
    /\ UNCHANGED <<fn, parseVars, featureVars, countVars, tableVars,
                   cluster_labels_1, cluster_labels_2, groups,
                   normalization_basis_group, df_long_passed, centroids,
                   feature_names, df_centroids>>

BuildCentroidsDf ==
    /\ fn = "get_cluster_counts_comparison_df"
    /\ pc = "return"
    /\ fn' = "build_centroids_df"
    /\ \E centroid_rows \in CentroidArrays : \E names \in FeatureNameChoices :
           /\ centroids' = centroid_rows
           /\ feature_names' = names
           /\ IF BuildCentroidsRaises(centroid_rows, names,
                                      df_cluster_comparison_long)
              THEN pc' = "raise" /\ UNCHANGED df_centroids
              ELSE LET rows == CentroidRows(centroid_rows,
                                            df_cluster_comparison_long)
                   IN  /\ pc' = "return"
                       /\ \E order \in SortOrders(rows) :
                              df_centroids' =
                                  [i \in 1..Len(rows) |-> rows[order[i]]]
    /\ UNCHANGED <<parseVars, featureVars, countVars, tableVars,
                   cluster_labels_1, cluster_labels_2, groups,
                   normalization_basis_group, df_cluster_comparison_long,
                   df_long_passed, df_cluster_comparison_wide>>

NextClusters ==
    \/ GetClusterCountsComparisonDfRaise
    \/ GetClusterCountsComparisonDfReturn
    \/ BuildCentroidsDf

SpecClusters == InitClusters /\ [][NextClusters]_vars

----------------------------------------------------------------------------
(* SpecClean: a demographics table is read and the functions of the        *)
(* cleaning pipeline are called on the table at hand, each call taking the *)
(* table the previous one returned.                                        *)

\* The columns utils.py names, and as many others as make the 85 of the
\* original dataset
NamedColumns ==
    << "TITEL_KZ", "AGER_TYP", "KK_KUNDENTYP", "KBA05_BAUMAX", "GEBURTSJAHR",
       "ALTER_HH", "CAMEO_DEU_2015", "OST_WEST_KZ", "CAMEO_DEUG_2015",
       "CJT_GESAMTTYP", "FINANZTYP", "GEBAEUDETYP", "GFK_URLAUBERTYP",
       "LP_FAMILIE_FEIN", "LP_FAMILIE_GROB", "LP_STATUS_FEIN",
       "LP_STATUS_GROB", "NATIONALITAET_KZ", "SHOPPER_TYP", "ZABEOTYP",
       "PRAEGENDE_JUGENDJAHRE", "CAMEO_INTL_2015", "LP_LEBENSPHASE_FEIN",
       "LP_LEBENSPHASE_GROB", "WOHNLAGE", "PLZ8_BAUMAX" >>

OtherColumns(k) == [i \in 1..k |-> "COL_" \o ToString(i)]

NumOtherColumns == num_columns_in_original_dataset - Len(NamedColumns)

\* A complete row: every cell holds a valid code of its column
BaseCell(column) ==
    IF column = "CAMEO_DEU_2015" THEN StrV(<<"8", "A">>)
    ELSE IF column = "OST_WEST_KZ" THEN StrV(<<"W">>)
    ELSE IF column = "CAMEO_DEUG_2015" THEN StrV(<<"8">>)
    ELSE IF column = "CAMEO_INTL_2015" THEN StrV(<<"5", "4">>)
    ELSE IF column = "PRAEGENDE_JUGENDJAHRE" THEN IntV(15)
    ELSE IF column \in {"CJT_GESAMTTYP", "GEBAEUDETYP", "GFK_URLAUBERTYP",
                        "LP_FAMILIE_FEIN", "LP_FAMILIE_GROB", "LP_STATUS_FEIN",
                        "LP_STATUS_GROB"} THEN FloatV(1)
    ELSE IntV(1)

\* The rows of the input tables: the complete row, and rows that differ from
\* it in the cells listed
RowProfiles ==
    { <<>>,
      << <<"PRAEGENDE_JUGENDJAHRE", IntV(1)>>,
         <<"CAMEO_INTL_2015", StrV(<<"1", "3">>)>>,
         <<"OST_WEST_KZ", StrV(<<"O">>)>>,
         <<"CAMEO_DEUG_2015", StrV(<<"4">>)>>,
         <<"SHOPPER_TYP", IntV(0)>> >>,
      << <<"CAMEO_DEUG_2015", StrV(<<"X">>)>> >>,
      << <<"SHOPPER_TYP", IntV(-1)>> >>,
      << <<"COL_1", IntV(-1)>> >>,
      << <<"COL_1", StrV(<<"X">>)>> >>,
      << <<"PRAEGENDE_JUGENDJAHRE", IntV(16)>> >>,
      << <<"OST_WEST_KZ", NaN>> >>,
      << <<"OST_WEST_KZ", IntV(-1)>> >>,
      << <<"PRAEGENDE_JUGENDJAHRE", IntV(0)>>,
         <<"CAMEO_INTL_2015", StrV(<<"X", "X">>)>> >> }

\* The rows of a table read: any profile first, then complete rows and rows
\* with one unknown value
FillerProfiles == {<<>>, << <<"COL_1", IntV(-1)>> >>}

RowLists ==
    {rows \in SeqsUpTo(RowProfiles, MaxRows) :
        \A i \in 2..Len(rows) : rows[i] \in FillerProfiles}

ProfileCell(profile, column) ==
    IF \E i \in 1..Len(profile) : profile[i][1] = column
    THEN profile[CHOOSE i \in 1..Len(profile) : profile[i][1] = column][2]
    ELSE BaseCell(column)

\* A column that no step of the pipeline touches, holding the number of the row
RowNumberColumn == "COL_3"

\* The table read from the rows `profiles` over the columns `columns`
TableOf(columns, profiles) ==
    [cols |-> [c \in 1..Len(columns) |->
                  [name |-> columns[c],
                   dtype |-> "object",
                   values |-> [r \in 1..Len(profiles) |->
                                  IF columns[c] = RowNumberColumn THEN IntV(r)
                                  ELSE ProfileCell(profiles[r], columns[c])]]],
     n |-> Len(profiles)]

\* The missing_or_unknown entry of each column
SentinelSpec(column) ==
    IF column = "CAMEO_DEUG_2015" THEN <<"[", "-", "1", ",", "X", "]">>
    ELSE IF column = "CAMEO_DEU_2015" THEN <<"[", "X", "X", "]">>
    ELSE IF column = "CAMEO_INTL_2015" THEN <<"[", "-", "1", ",", "X", "X", "]">>
    ELSE IF column \in {"PRAEGENDE_JUGENDJAHRE", "GEBAEUDETYP"}
         THEN <<"[", "-", "1", ",", "0", "]">>
    ELSE IF column = "COL_2" THEN <<"[", "]">>
    ELSE <<"[", "-", "1", "]">>

SummaryOf(columns) ==
    [i \in 1..Len(columns) |->
        [attribute |-> columns[i], missing_or_unknown |-> SentinelSpec(columns[i])]]

FullColumns == NamedColumns \o OtherColumns(NumOtherColumns)

ShortColumns == NamedColumns \o OtherColumns(NumOtherColumns - 1)

InitClean ==
    /\ fn = "read_csv"
    /\ pc = "return"
    /\ \/ /\ df_at_hand \in {TableOf(FullColumns, rows) : rows \in RowLists}
          /\ feature_summary = SummaryOf(FullColumns)
       \/ /\ df_at_hand = TableOf(ShortColumns, << <<>> >>)
          /\ feature_summary = SummaryOf(ShortColumns)
       \/ /\ df_at_hand = TableOf(FullColumns, << <<>> >>)
          /\ feature_summary \in
                 {SummaryOf(Append(FullColumns, "COL_1")), SummaryOf(ShortColumns)}
    /\ df_argument = NoTable
    /\ df_passed = NoTable
    /\ cutoff_used = NoCutoff
    /\ one_hot_args = NoEncoding
    /\ ParseIdle
    /\ FeaturesIdle
    /\ CountsIdle
    /\ ClustersIdle

\* The caller holds a table that one of the functions `after` returned
TableAtHand(after) == pc = "return" /\ fn \in after

\* The call of a function that returns `out` and leaves its argument as `arg`
TableCall(name, after, out, arg, made_with, encoding) ==
    /\ TableAtHand(after)
    /\ fn' = name
    /\ pc' = IF out.raised THEN "raise" ELSE "return"
    /\ df_at_hand' = out.df
    /\ df_passed' = df_at_hand
    /\ df_argument' = arg
    /\ cutoff_used' = IF out.raised THEN NoCutoff ELSE made_with
    /\ one_hot_args' = encoding
    /\ UNCHANGED <<feature_summary, parseVars, featureVars, countVars,
                   clusterVars>>

\* The steps are called on their own in the order clean_data calls them
SetMissingAndUnknownToNan ==
    /\ ~BuildRaises(feature_summary)
    /\ TableCall("set_missing_and_unknown_to_nan", {"read_csv"},
                 set_missing_and_unknown_to_nan(df_at_hand,
                     build_column_to_missing_and_unkown_values(feature_summary)),
                 df_at_hand, NoCutoff, NoEncoding)

\* The encodings one_hot_encode_column is called with on its own
OneHotChoices == {CategoricalEncodings[1], CategoricalEncodings[11]}

OneHotEncodeColumn ==
    \E e \in OneHotChoices :
        TableCall("one_hot_encode_column",
                  {"read_csv", "set_missing_and_unknown_to_nan"},
                  one_hot_encode_column(df_at_hand, e.column, e.unique_vals),
                  df_at_hand, NoCutoff, e)

ModifyCategoricalColumns ==
    TableCall("modify_categorical_columns", {"set_missing_and_unknown_to_nan"},
              modify_categorical_columns(df_at_hand), df_at_hand, NoCutoff,
              NoEncoding)

ModifyMixedTypeColumns ==
    TableCall("modify_mixed_type_columns",
              {"set_missing_and_unknown_to_nan", "modify_categorical_columns"},
              modify_mixed_type_columns(df_at_hand),
              MixedArgument(df_at_hand), NoCutoff, NoEncoding)

CleanData ==
    \E c \in 0..MaxCutoff :
        TableCall("clean_data", {"read_csv"},
                  clean_data(df_at_hand, feature_summary, c), df_at_hand, {c},
                  NoEncoding)

Transforms ==
    {"read_csv", "set_missing_and_unknown_to_nan", "one_hot_encode_column",
     "modify_categorical_columns", "modify_mixed_type_columns", "clean_data"}

CheckCleanedDf ==
    /\ TableAtHand(Transforms)
    /\ fn' = "check_cleaned_df"
    /\ pc' = IF CheckRaises(df_at_hand) THEN "raise" ELSE "return"
    /\ df_passed' = df_at_hand
    /\ df_argument' = df_at_hand
    /\ one_hot_args' = NoEncoding
    /\ UNCHANGED <<df_at_hand, cutoff_used, feature_summary, parseVars,
                   featureVars, countVars, clusterVars>>

NextClean ==
    \/ SetMissingAndUnknownToNan
    \/ OneHotEncodeColumn
    \/ ModifyCategoricalColumns
    \/ ModifyMixedTypeColumns
    \/ CleanData
    \/ CheckCleanedDf

SpecClean == InitClean /\ [][NextClean]_vars

----------------------------------------------------------------------------
(* Properties of parse_missing_or_unknown_str *)

Parsed == fn = "parse_missing_or_unknown_str" /\ pc = "return"

\* The tokens of a bracketed spec string: the pieces of its interior
Interior(chars) == SubSeq(chars, 2, Len(chars) - 1)

\* C2: parse_missing_or_unknown_str applied to "[]" returns the empty list,
\* not a list holding one empty string.
C2_EmptyBracketsGiveEmptyList ==
    (Parsed /\ missing_or_unknown_str = <<"[", "]">>) => converted_list = <<>>

\* C3 as stated: for a bracketed spec with a non-empty interior the list has
\* one element per comma-separated token, in order: the integer when the
\* token converts, otherwise the token with its surrounding whitespace
\* removed.
C3_TokensIntOrTrimmed ==
    (Parsed /\ Interior(missing_or_unknown_str) # <<>>) =>
        LET tokens == split(Interior(missing_or_unknown_str))
        IN  /\ Len(converted_list) = Len(tokens)
            /\ \A i \in 1..Len(tokens) :
                   converted_list[i] =
                       IF IsIntLiteral(tokens[i])
                       THEN IntV(IntOfLiteral(tokens[i]))
                       ELSE StrV(Strip(tokens[i]))

\* C3 amended: as above, but a token that does not convert to an integer is
\* kept exactly as written, whitespace included.
C3_TokensIntOrVerbatim ==
    (Parsed /\ Interior(missing_or_unknown_str) # <<>>) =>
        LET tokens == split(Interior(missing_or_unknown_str))
        IN  /\ Len(converted_list) = Len(tokens)
            /\ \A i \in 1..Len(tokens) :
                   converted_list[i] =
                       IF IsIntLiteral(tokens[i])
                       THEN IntV(IntOfLiteral(tokens[i]))
                       ELSE StrV(tokens[i])

\* "[-1,X]" has been parsed into [-1, "X"]
C3_Witness ==
    /\ Parsed
    /\ missing_or_unknown_str = <<"[", "-", "1", ",", "X", "]">>
    /\ converted_list = <<IntV(-1), StrV(<<"X">>)>>

----------------------------------------------------------------------------
(* Properties of the get_*_features functions *)

Called(f) == fn = f /\ pc # "call"

\* The decade of each code 1..15, as the specification tabulates it
DecadeTable == <<0, 0, 1, 1, 2, 2, 2, 3, 3, 4, 4, 4, 4, 5, 5>>

\* C7: get_praegende_jugendjahre_features returns (missing, missing) for a
\* missing value, fails for a present value outside 1..15, and for an integer
\* code in 1..15 returns flag 0 exactly for {2,4,6,7,9,11,13,15} and the
\* decade of the table, which lies in 0..5.
C7_YouthCode ==
    Called("get_praegende_jugendjahre_features") =>
        /\ isna(value) => (pc = "return" /\ features = <<NA, NA>>)
        /\ (~isna(value) /\ ~(IsNumber(value) /\ InRange(1, value, 15)))
               => pc = "raise"
        /\ \A i \in 1..15 :
               value \in {IntV(i), FloatV(i)} =>
                   /\ pc = "return"
                   /\ features[1] =
                          IntV(IF i \in {2, 4, 6, 7, 9, 11, 13, 15} THEN 0 ELSE 1)
                   /\ features[2] = IntV(DecadeTable[i])
                   /\ features[2].n \in 0..5

\* Code 15 has been decomposed into (0, 5)
C7_Witness ==
    /\ fn = "get_praegende_jugendjahre_features"
    /\ pc = "return"
    /\ value = IntV(15)
    /\ features = <<IntV(0), IntV(5)>>

HasInteger(v) == IsNumber(v) \/ (v.k = "str" /\ IsIntLiteral(v.s))

IntegerOf(v) ==
    IF v.k = "str" THEN IntOfLiteral(v.s)
    ELSE IF v.k = "half" /\ v.n < 0 THEN v.n + 1
    ELSE v.n

----------------------------------------------------------------------------
(* Properties of the cleaning pipeline *)

OneHotCalled == fn = "one_hot_encode_column"

OneHotReturned == OneHotCalled /\ pc = "return"

\* The columns a call has added to the table it was passed
DerivedColumns == Names(df_at_hand) \ Names(df_passed)

\* C1: where one_hot_encode_column has returned, every row whose cell in the
\* source column is missing holds the missing marker, not 0, in every derived
\* column.
C1_MissingStaysMissing ==
    OneHotReturned =>
        \A r \in Rows(df_passed) :
            isna(Cell(df_passed, one_hot_args.column, r)) =>
                \A d \in DerivedColumns : isna(Cell(df_at_hand, d, r))

\* C4: every transform of the cleaning pipeline leaves the table passed to it
\* as it was passed, same columns and same cells.
C4_ArgumentUnchanged ==
    (fn \in Transforms \ {"read_csv"}) => df_argument = df_passed

SetMissingReturned == fn = "set_missing_and_unknown_to_nan" /\ pc = "return"

\* The sentinel lists of the columns
Sentinels == build_column_to_missing_and_unkown_values(feature_summary)

IsMember(v, list) == \E i \in 1..Len(list) : PyEq(v, list[i])

\* The same value, or both missing
SameCell(a, b) == (isna(a) /\ isna(b)) \/ a = b

SameShape ==
    /\ Columns(df_at_hand) = Columns(df_passed)
    /\ df_at_hand.n = df_passed.n

\* C5: in the table set_missing_and_unknown_to_nan returns, with the rows and
\* columns of the table passed, a cell is missing if the original cell is a
\* member of its column's sentinel list, and every other cell equals the
\* original cell.
C5_OnlySentinelsChange ==
    SetMissingReturned =>
        /\ SameShape
        /\ \A c \in Names(df_passed) : \A r \in Rows(df_passed) :
               IF IsMember(Cell(df_passed, c, r), Sentinels[c])
               THEN isna(Cell(df_at_hand, c, r))
               ELSE SameCell(Cell(df_passed, c, r), Cell(df_at_hand, c, r))

\* C5 amended: as C5, except that the cells of CAMEO_DEUG_2015 that are not
\* made missing are converted to integers ("8" becomes 8).
C5_OnlySentinelsChangeOrDeugInteger ==
    SetMissingReturned =>
        /\ SameShape
        /\ \A c \in Names(df_passed) : \A r \in Rows(df_passed) :
               LET before == Cell(df_passed, c, r)
                   after == Cell(df_at_hand, c, r)
               IN  IF IsMember(before, Sentinels[c]) THEN isna(after)
                   ELSE IF c = "CAMEO_DEUG_2015" /\ ~isna(before)
                        THEN after = IntV(IntegerOf(before))
                   ELSE SameCell(before, after)

\* A sentinel (-1 or "X") has been made missing, next to a CAMEO_DEUG_2015
\* cell that was the string "8" and is the integer 8
C5_Witness ==
    /\ SetMissingReturned
    /\ \E c \in Names(df_passed) : \E r \in Rows(df_passed) :
           /\ IsMember(Cell(df_passed, c, r), Sentinels[c])
           /\ isna(Cell(df_at_hand, c, r))
    /\ \E r \in Rows(df_passed) :
           /\ Cell(df_passed, "CAMEO_DEUG_2015", r) = StrV(<<"8">>)
           /\ Cell(df_at_hand, "CAMEO_DEUG_2015", r) = IntV(8)

\* The non-missing cells of the source column are all allowed values
AllAllowed ==
    /\ one_hot_args.column \in Names(df_passed)
    /\ \A r \in Rows(df_passed) :
           LET v == Cell(df_passed, one_hot_args.column, r)
           IN  ~isna(v) => IsMember(v, one_hot_args.unique_vals)

DerivedColumn(unique_val) == one_hot_args.column \o "_" \o Format(unique_val)

\* C6: one_hot_encode_column, called on a column whose non-missing values are
\* all in unique_vals, returns a table with one derived column per allowed
\* value and without the source column, where a row whose source cell is the
\* allowed value v has 1 in the derived column of v and 0 in the others.
C6_OneDerivedColumnPerValue ==
    (OneHotCalled /\ AllAllowed) =>
        /\ pc = "return"
        /\ one_hot_args.column \notin Names(df_at_hand)
        /\ DerivedColumns =
               {DerivedColumn(one_hot_args.unique_vals[i]) :
                   i \in 1..Len(one_hot_args.unique_vals)}
        /\ Cardinality(DerivedColumns) = Len(one_hot_args.unique_vals)
        /\ \A r \in Rows(df_passed) : \A i \in 1..Len(one_hot_args.unique_vals) :
               LET v == Cell(df_passed, one_hot_args.column, r)
                   unique_val == one_hot_args.unique_vals[i]
               IN  ~isna(v) =>
                       Cell(df_at_hand, DerivedColumn(unique_val), r)
                           = IF PyEq(v, unique_val) THEN IntV(1) ELSE IntV(0)

CheckCalled == fn = "check_cleaned_df"

\* (a) the column count is the original count less the dropped columns plus
\* their replacements
ColumnCountExpected == Len(df_at_hand.cols) = expected_columns

\* (b) no column of the dropped set is present
NoDroppedColumn == Names(df_at_hand) \cap expected_dropped_columns = {}

\* (c) no row has more than c missing cells
NoRowAbove(c) == \A r \in Rows(df_at_hand) : NaCount(df_at_hand, r) <= c

\* (d) every non-missing cell is an integer or a floating-point number
AllNumeric ==
    \A i \in 1..Len(df_at_hand.cols) : \A r \in Rows(df_at_hand) :
        LET v == df_at_hand.cols[i].values[r]
        IN  ~isna(v) => v.k \in {"int", "float", "half"}

\* C9: check_cleaned_df, called on the table clean_data made with a cutoff,
\* returns exactly when (a), (b), (c) for that cutoff and (d) hold, and
\* raises otherwise.
C9_ValidatesAgainstRowFilterCutoff ==
    \A c \in cutoff_used :
        CheckCalled =>
            ((pc = "return") <=>
                (ColumnCountExpected /\ NoDroppedColumn /\ NoRowAbove(c)
                    /\ AllNumeric))

\* C9 amended: check_cleaned_df returns exactly when (a), (b) and (d) hold
\* and no row has a missing cell, whatever cutoff the row filter was run
\* with, and raises otherwise.
C9_ValidatesAgainstNoMissing ==
    CheckCalled =>
        ((pc = "return") <=>
            (ColumnCountExpected /\ NoDroppedColumn /\ NoRowAbove(0)
                /\ AllNumeric))

\* check_cleaned_df has returned for the table clean_data made of complete
\* rows with cutoff 1
C9_Witness ==
    /\ CheckCalled
    /\ pc = "return"
    /\ cutoff_used = {1}
    /\ df_at_hand.n > 0

----------------------------------------------------------------------------
(* Properties of get_cluster_counts_df *)

Occurrences(labels, id) == Cardinality({i \in DOMAIN labels : labels[i] = id})

\* C10: the table get_cluster_counts_df returns has exactly one row per id of
\* unique_cluster_ids_sorted, in that order, whose count is the number of
\* occurrences of the id in the labels (0 when absent) and whose frac is
\* count / |labels|; the labels [0,0,1,2,2,2] with the ids [0,1,2,3] give the
\* counts [2,1,3,0].
C10_OneRowPerId ==
    (fn = "get_cluster_counts_df" /\ pc = "return") =>
        /\ Len(df_counts) = Len(unique_cluster_ids_sorted)
        /\ \A i \in 1..Len(unique_cluster_ids_sorted) :
               LET id == unique_cluster_ids_sorted[i]
                   n == Occurrences(cluster_labels_arr, id)
               IN  /\ df_counts[i].cluster_id = id
                   /\ df_counts[i].count = n
                   /\ df_counts[i].frac.num * Len(cluster_labels_arr)
                          = n * df_counts[i].frac.den
        /\ (cluster_labels_arr = ExampleLabels
                /\ unique_cluster_ids_sorted = ExampleIds)
               => [i \in 1..4 |-> df_counts[i].count] = <<2, 1, 3, 0>>

\* The example call has returned, with a row of count 0 for the absent id 3
C10_Witness ==
    /\ fn = "get_cluster_counts_df"
    /\ pc = "return"
    /\ cluster_labels_arr = ExampleLabels
    /\ unique_cluster_ids_sorted = ExampleIds
    /\ Len(df_counts) = 4
    /\ df_counts[4].cluster_id = 3
    /\ df_counts[4].count = 0

CountsCalled == fn = "get_cluster_counts_df" /\ pc # "call"

CountsReturned == fn = "get_cluster_counts_df" /\ pc = "return"

\* The sums of the count and frac columns are those of a complete table: the
\* fracs, taken over the common denominator |labels|, sum to 1
SumsComplete ==
    LET total == Len(cluster_labels_arr)
        Over(i) == df_counts[i].frac.num * (total \div df_counts[i].frac.den)
        parts == [i \in 1..Len(df_counts) |-> [over |-> Over(i)]]
    IN  /\ total > 0
        /\ SumOf(df_counts, "count") = total
        /\ \A i \in 1..Len(df_counts) : total % df_counts[i].frac.den = 0
        /\ SumOf(parts, "over") = total

LabelNotListed ==
    \E i \in 1..Len(cluster_labels_arr) :
        \A j \in 1..Len(unique_cluster_ids_sorted) :
            unique_cluster_ids_sorted[j] # cluster_labels_arr[i]

OccurringIdListedTwice ==
    \E j, k \in 1..Len(unique_cluster_ids_sorted) :
        /\ j < k
        /\ unique_cluster_ids_sorted[j] = unique_cluster_ids_sorted[k]
        /\ Occurrences(cluster_labels_arr, unique_cluster_ids_sorted[j]) > 0

\* The occurrences of the listed ids, a repeated id counted each time
ListedOccurrences ==
    SumOf([j \in 1..Len(unique_cluster_ids_sorted) |->
              [n |-> Occurrences(cluster_labels_arr, unique_cluster_ids_sorted[j])]],
          "n")

\* C11: get_cluster_counts_df fails when some label is not in the ids, when
\* the ids list twice an id that occurs in the labels, and when the labels
\* are empty; whenever it returns, the counts sum to |labels| and the fracs
\* to 1.
C11_FailsOnEveryBadInput ==
    CountsCalled =>
        /\ (LabelNotListed \/ OccurringIdListedTwice
                \/ cluster_labels_arr = <<>>) => pc = "raise"
        /\ pc = "return" => SumsComplete

\* C11 amended: it fails when the labels are empty and when the occurrences
\* of the listed ids, a repeated id counted each time, do not add up to
\* |labels|; whenever it returns, the counts sum to |labels| and the fracs
\* to 1.  A label that is not listed is not detected when a repeated id
\* makes up for it.
C11_FailsOnWrongSums ==
    CountsCalled =>
        /\ (cluster_labels_arr = <<>>
                \/ ListedOccurrences # Len(cluster_labels_arr)) => pc = "raise"
        /\ pc = "return" => SumsComplete

\* The call has failed for a label that is not listed, and for another input
\* it has returned a table
C11_Witness ==
    /\ CountsCalled
    /\ \/ pc = "raise" /\ LabelNotListed /\ ~OccurringIdListedTwice
       \/ pc = "return" /\ Len(df_counts) = 2 /\ SumsComplete

----------------------------------------------------------------------------
(* Properties of normalize_cluster_comparison_df *)

NormalizeCalled == fn = "normalize_cluster_comparison_df" /\ pc # "call"

\* The rows of the reference group in the table passed
ReferenceRows ==
    {i \in 1..Len(df_long_passed.rows) :
        df_long_passed.rows[i].group = normalization_basis_group}

ReferenceRowsOf(cluster_id) ==
    {i \in ReferenceRows : df_long_passed.rows[i].cluster_id = cluster_id}

HasColumn(df, name) == \E i \in 1..Len(df.columns) : df.columns[i] = name

\* C12: when normalize_cluster_comparison_df returns, every row has
\* normalized_frac = frac / (frac of the reference row of its cluster id):
\* 1 on every reference row, and 0.5 for a frac of 0.25 against a reference
\* frac of 0.5; the cluster id, count, frac and group of every row are as
\* they were.
C12_FracOverReferenceFrac ==
    (NormalizeCalled /\ pc = "return") =>
        /\ Len(df_cluster_comparison_long.rows) = Len(df_long_passed.rows)
        /\ HasColumn(df_cluster_comparison_long, "normalized_frac")
        /\ \A i \in 1..Len(df_long_passed.rows) :
               LET before == df_long_passed.rows[i]
                   after == df_cluster_comparison_long.rows[i]
                   q == after.normalized_frac
               IN  /\ after.cluster_id = before.cluster_id
                   /\ after.count = before.count
                   /\ after.frac = before.frac
                   /\ after.group = before.group
                   /\ \E r \in ReferenceRowsOf(before.cluster_id) :
                          LET y == df_long_passed.rows[r].frac
                          IN  /\ y.num > 0
                              /\ q.num * y.num * before.frac.den
                                     = before.frac.num * q.den * y.den
                              /\ (before.frac = [num |-> 1, den |-> 4]
                                     /\ y = [num |-> 1, den |-> 2])
                                  => q = [num |-> 1, den |-> 2]
                   /\ i \in ReferenceRows => q = [num |-> 1, den |-> 1]

\* Reference fracs 0.5 and 0.5 for the ids 0 and 1, and a customer row of
\* id 0 with frac 0.25 that has got 0.5
C12_Witness ==
    /\ NormalizeCalled
    /\ pc = "return"
    /\ normalization_basis_group = "demographics"
    /\ Len(df_cluster_comparison_long.rows) = 3
    /\ \A i \in 1..2 :
           /\ df_cluster_comparison_long.rows[i].group = "demographics"
           /\ df_cluster_comparison_long.rows[i].cluster_id = i - 1
           /\ df_cluster_comparison_long.rows[i].frac = [num |-> 1, den |-> 2]
           /\ df_cluster_comparison_long.rows[i].normalized_frac
                  = [num |-> 1, den |-> 1]
    /\ df_cluster_comparison_long.rows[3].group = "customer"
    /\ df_cluster_comparison_long.rows[3].cluster_id = 0
    /\ df_cluster_comparison_long.rows[3].frac = [num |-> 1, den |-> 4]
    /\ df_cluster_comparison_long.rows[3].normalized_frac = [num |-> 1, den |-> 2]

ReferenceFracZero ==
    \E i \in ReferenceRows : df_long_passed.rows[i].frac.num = 0

ReferenceIdShared ==
    \E i, j \in ReferenceRows :
        i # j /\ df_long_passed.rows[i].cluster_id = df_long_passed.rows[j].cluster_id

IdWithoutReference ==
    \E i \in 1..Len(df_long_passed.rows) :
        ReferenceRowsOf(df_long_passed.rows[i].cluster_id) = {}

\* C13: normalize_cluster_comparison_df fails, and leaves the table as it
\* was passed, without a normalized_frac or normalized_frac_error column,
\* when a reference row has frac 0, when two reference rows share a cluster
\* id, and when the cluster id of some row has no reference row.
C13_FailsWithoutPartialResult ==
    (NormalizeCalled
        /\ (ReferenceFracZero \/ ReferenceIdShared \/ IdWithoutReference)) =>
        /\ pc = "raise"
        /\ df_cluster_comparison_long = df_long_passed
        /\ ~HasColumn(df_cluster_comparison_long, "normalized_frac")
        /\ ~HasColumn(df_cluster_comparison_long, "normalized_frac_error")

\* The call has failed for a reference row of frac 0, in a table where the
\* other two conditions do not hold
C13_Witness ==
    /\ NormalizeCalled
    /\ pc = "raise"
    /\ ReferenceFracZero
    /\ ~ReferenceIdShared
    /\ ~IdWithoutReference
    /\ Len(df_long_passed.rows) = 2

----------------------------------------------------------------------------
(* Properties of get_cluster_counts_comparison_df and build_centroids_df *)

ComparisonCalled == fn = "get_cluster_counts_comparison_df" /\ pc # "call"

IdsOf(labels) == {labels[i] : i \in 1..Len(labels)}

IsGroup(name) == \E i \in 1..Len(groups) : groups[i] = name

\* The group that is not the reference group has a cluster id that the
\* labels of the reference group do not have
OtherGroupHasOwnId ==
    /\ Len(groups) = 2
    /\ \/ /\ groups[1] = normalization_basis_group
          /\ groups[2] # normalization_basis_group
          /\ IdsOf(cluster_labels_2) \ IdsOf(cluster_labels_1) # {}
       \/ /\ groups[2] = normalization_basis_group
          /\ groups[1] # normalization_basis_group
          /\ IdsOf(cluster_labels_1) \ IdsOf(cluster_labels_2) # {}

LongRowsOf(cluster_id, group) ==
    {i \in 1..Len(df_cluster_comparison_long.rows) :
        /\ df_cluster_comparison_long.rows[i].cluster_id = cluster_id
        /\ df_cluster_comparison_long.rows[i].group = group}

NoTablesReturned ==
    /\ pc = "raise"
    /\ df_cluster_comparison_long = NoLongTable
    /\ df_cluster_comparison_wide = <<>>

\* C17: in the long table get_cluster_counts_comparison_df returns, every
\* cluster id of either label sequence has one row per group; the call fails,
\* returning no table, when the group that is not the reference group has a
\* cluster id the reference labels lack, and unless groups has two names with
\* normalization_basis_group one of them.
C17_OneRowPerIdAndGroup ==
    ComparisonCalled =>
        /\ pc = "return" =>
               \A id \in IdsOf(cluster_labels_1) \cup IdsOf(cluster_labels_2) :
                   \A i \in 1..Len(groups) :
                       Cardinality(LongRowsOf(id, groups[i])) = 1
        /\ OtherGroupHasOwnId => NoTablesReturned
        /\ (Len(groups) # 2 \/ ~IsGroup(normalization_basis_group))
               => NoTablesReturned

\* The call has returned rows for two cluster ids, and another call has
\* failed for an id of the customers that the demographics lack
C17_Witness ==
    /\ ComparisonCalled
    /\ \/ /\ pc = "return"
          /\ Len(df_cluster_comparison_long.rows) = 4
       \/ /\ pc = "raise"
          /\ OtherGroupHasOwnId
          /\ cluster_labels_1 # <<>>
          /\ cluster_labels_2 # <<>>

BuildCalled == fn = "build_centroids_df"

CustomerFracs == GroupColumn(df_cluster_comparison_long, "customer", "normalized_frac")

DemographicsFracs == GroupColumn(df_cluster_comparison_long, "demographics", "frac")

\* C14: build_centroids_df returns one row per centroid, with the 0-based
\* index of the centroid as cluster_id and the coordinates of that centroid,
\* the rows in ascending order of normalized_customer_frac; it fails when the
\* comparison table has no row of group "customer" or none of group
\* "demographics".
C14_OneSortedRowPerCentroid ==
    BuildCalled =>
        /\ pc = "return" =>
               /\ Len(df_centroids) = Len(centroids)
               /\ \A i \in 1..Len(centroids) :
                      \E r \in 1..Len(df_centroids) :
                          /\ df_centroids[r].cluster_id = i - 1
                          /\ df_centroids[r].features = centroids[i]
               /\ \A r \in 1..(Len(df_centroids) - 1) :
                      LET x == df_centroids[r].normalized_customer_frac
                          y == df_centroids[r + 1].normalized_customer_frac
                      IN  x.num * y.den <= y.num * x.den
        /\ (CustomerFracs = <<>> \/ DemographicsFracs = <<>>) => pc = "raise"

\* Two centroids have been returned with the second one first, its customers
\* being the fewer
C14_Witness ==
    /\ BuildCalled
    /\ pc = "return"
    /\ Len(df_centroids) = 2
    /\ df_centroids[1].cluster_id = 1
    /\ df_centroids[1].features = centroids[2]
    /\ df_centroids[1].normalized_customer_frac
           # df_centroids[2].normalized_customer_frac

\* The i-th row of both groups is the row of cluster id i - 1
RowsAtTheirIds ==
    \A g \in {"customer", "demographics"} :
        LET ids == GroupColumn(df_cluster_comparison_long, g, "cluster_id")
        IN  \A i \in 1..Len(ids) : ids[i] = i - 1

PresentIds ==
    {df_cluster_comparison_long.rows[i].cluster_id :
        i \in 1..Len(df_cluster_comparison_long.rows)}

\* C18: build_centroids_df gives the centroid of index i the normalized_frac
\* of the i-th "customer" row and the frac of the i-th "demographics" row;
\* those are the rows of cluster id i exactly when the cluster ids of the
\* table are 0..k-1 for k centroids; the call fails when a group has a number
\* of rows other than the number of centroids.
C18_PairedByPositionOrFails ==
    BuildCalled =>
        /\ (Len(CustomerFracs) # Len(centroids)
                \/ Len(DemographicsFracs) # Len(centroids)) => pc = "raise"
        /\ pc = "return" =>
               /\ \A r \in 1..Len(df_centroids) :
                      LET i == df_centroids[r].cluster_id + 1
                      IN  /\ df_centroids[r].normalized_customer_frac
                                 = CustomerFracs[i]
                          /\ df_centroids[r].demographics_frac
                                 = DemographicsFracs[i]
               /\ RowsAtTheirIds <=> (PresentIds = 0..(Len(centroids) - 1))

\* C18 amended: a group with exactly one row gives its value to every
\* centroid; the call fails exactly when a group has a number of rows that is
\* neither 1 nor the number of centroids, or the feature names do not match
\* the coordinates; with as many rows in both groups as centroids the pairing
\* is by position, and the rows are those of cluster id i exactly when the
\* cluster ids of the table are 0..k-1.
C18_PairedByPositionOrBroadcast ==
    BuildCalled =>
        /\ (pc = "raise") <=>
               \/ Len(CustomerFracs) \notin {1, Len(centroids)}
               \/ Len(DemographicsFracs) \notin {1, Len(centroids)}
               \/ \E i \in 1..Len(centroids) :
                      Len(centroids[i]) # Len(feature_names)
        /\ pc = "return" =>
               \A r \in 1..Len(df_centroids) :
                   LET i == df_centroids[r].cluster_id + 1
                   IN  /\ df_centroids[r].normalized_customer_frac
                              = IF Len(CustomerFracs) = 1 THEN CustomerFracs[1]
                                ELSE CustomerFracs[i]
                       /\ df_centroids[r].demographics_frac
                              = IF Len(DemographicsFracs) = 1
                                THEN DemographicsFracs[1]
                                ELSE DemographicsFracs[i]
        /\ (pc = "return" /\ Len(CustomerFracs) = Len(centroids)
                /\ Len(DemographicsFracs) = Len(centroids)) =>
               (RowsAtTheirIds <=> (PresentIds = 0..(Len(centroids) - 1)))

\* Two centroids have been returned for a table with one row per group, and
\* both carry the value of that row
C18_Witness ==
    /\ BuildCalled
    /\ pc = "return"
    /\ Len(centroids) = 2
    /\ Len(CustomerFracs) = 1
    /\ df_centroids[1].normalized_customer_frac = CustomerFracs[1]
    /\ df_centroids[2].normalized_customer_frac = CustomerFracs[1]

----------------------------------------------------------------------------
(* Properties of clean_data and of the east/west recode *)

CleanDataReturned == fn = "clean_data" /\ pc = "return"

\* The cell of the table passed is missing once the sentinels of its column
\* are replaced
MissingAfterReplacement(column, r) ==
    LET v == Cell(df_passed, column, r)
    IN  isna(v) \/ IsMember(v, Sentinels[column])

\* The missing cells of row r outside the six outlier columns
MissingCells(r) ==
    Cardinality({c \in Names(df_passed) \ OutlierColumns :
                    MissingAfterReplacement(c, r)})

RowsWithin(c) == {r \in Rows(df_passed) : MissingCells(r) <= c}

\* The rows of the table passed that the table returned holds, in its order
RowNumbers ==
    [i \in Rows(df_at_hand) |-> Cell(df_at_hand, RowNumberColumn, i).n]

\* C15: the table clean_data returns holds exactly the rows of the table
\* passed that have at most `cutoff` missing cells, counted after the sentinel
\* replacement and without the six outlier columns, in the order they had.
C15_KeepsRowsWithinCutoff ==
    \A c \in cutoff_used :
        CleanDataReturned =>
            /\ {RowNumbers[i] : i \in Rows(df_at_hand)} = RowsWithin(c)
            /\ \A i, j \in Rows(df_at_hand) :
                   i < j => RowNumbers[i] < RowNumbers[j]

\* With cutoff 1, a first row with two unknown values is gone and a second
\* row with one unknown value is kept
C15_Witness ==
    /\ CleanDataReturned
    /\ cutoff_used = {1}
    /\ df_passed.n = 2
    /\ MissingCells(1) = 2
    /\ MissingCells(2) = 1
    /\ RowNumbers = <<2>>

\* C16: the table clean_data returns for cutoff 0 and an 85-column table has
\* the 158 columns check_cleaned_df expects, none of the 25 dropped columns
\* and no missing cell.
C16_CleanedTablePassesStructuralChecks ==
    (CleanDataReturned /\ cutoff_used = {0}
        /\ Len(df_passed.cols) = num_columns_in_original_dataset) =>
        /\ expected_columns = 158
        /\ Cardinality(expected_dropped_columns) = 25
        /\ ColumnCountExpected
        /\ NoDroppedColumn
        /\ NoRowAbove(0)

\* clean_data has returned a complete row of a table that also had a row
\* with an unknown value
C16_Witness ==
    /\ CleanDataReturned
    /\ cutoff_used = {0}
    /\ Len(df_passed.cols) = num_columns_in_original_dataset
    /\ df_passed.n = 2
    /\ df_at_hand.n = 1

ModifyCategoricalCalled ==
    /\ fn = "modify_categorical_columns"
    /\ {"CAMEO_DEU_2015", "OST_WEST_KZ"} \subseteq Names(df_passed)

\* No column that modify_categorical_columns encodes holds a missing value or
\* a value outside its list
EncodedColumnsComplete ==
    \A e \in 1..Len(CategoricalEncodings) :
        LET column == CategoricalEncodings[e].column
        IN  /\ column \in Names(df_passed)
            /\ \A r \in Rows(df_passed) :
                   /\ ~isna(Cell(df_passed, column, r))
                   /\ IsMember(Cell(df_passed, column, r),
                               CategoricalEncodings[e].unique_vals)

\* C19: modify_categorical_columns, called on a table whose encoded columns are
\* complete, returns a table whose OST_WEST_KZ cell is 0 where the cell passed
\* is "W" and 1 for every other cell passed, a missing one included.
C19_EastWestIsZeroOrOne ==
    (ModifyCategoricalCalled /\ EncodedColumnsComplete) =>
        /\ pc = "return"
        /\ \A r \in Rows(df_passed) :
               Cell(df_at_hand, "OST_WEST_KZ", r) =
                   IF Cell(df_passed, "OST_WEST_KZ", r) = StrV(<<"W">>)
                   THEN IntV(0) ELSE IntV(1)

\* The recode where it returns: a missing cell that is np.nan has become 1
C19_NanIsOne ==
    (ModifyCategoricalCalled /\ pc = "return") =>
        \A r \in Rows(df_passed) :
            /\ Cell(df_at_hand, "OST_WEST_KZ", r) \in {IntV(0), IntV(1)}
            /\ Cell(df_passed, "OST_WEST_KZ", r).k = "nan" =>
                   Cell(df_at_hand, "OST_WEST_KZ", r) = IntV(1)

\* modify_categorical_columns has raised on a table whose only missing cell
\* is the OST_WEST_KZ cell that was the sentinel -1
C19_Witness ==
    /\ ModifyCategoricalCalled
    /\ EncodedColumnsComplete
    /\ pc = "raise"
    /\ \E r \in Rows(df_passed) : Cell(df_passed, "OST_WEST_KZ", r).k = "na"

====
